---------------------------- MODULE Spec2Model ----------------------------
(***************************************************************************)
(* Japan Government Statistics Analyzer: the normalization of an e-Stat    *)
(* payload (utils.js: normalizeStatisticalData, determineDataType,         *)
(* validateInput, the three fetch wrappers) and the run of the actor       *)
(* (main.js: mainLogic, runDemoMode).                                      *)
(*                                                                         *)
(* Representation of JavaScript values:                                    *)
(*   - free text (titles, keywords, messages) is a sequence of tokens: one *)
(*     token per kanji ("U+4EBA" is the character with that code point),   *)
(*     one token per ASCII word, " " for a blank;                          *)
(*   - codes, labels and units are atomic strings, "" the empty string;    *)
(*   - an object is a function on its keys; an absent key reads undefined; *)
(*   - null and undefined are the record Null;                             *)
(*   - an array is [arr |-> <<...>>], so that Array.isArray can tell it    *)
(*     from a single object;                                               *)
(*   - an ISO-8601 time string is <<"iso", t>> for the clock tick t, or    *)
(*     <<"date", d>> for a date the payload carries.                       *)
(***************************************************************************)
EXTENDS Integers, Sequences, FiniteSets, TLC

VARIABLES
    \* ---- one run of mainLogic (main.js)
    pc,               \* position in mainLogic
    input,            \* validatedInput
    hasKey,           \* estatAppId is truthy
    statsList,        \* tablesToProcess once the search returned
    idx,              \* index of the table of the for loop
    metadata,         \* metadata of the current table
    statsData,        \* statsData of the current table
    err,              \* message of the error being handled
    emitted,          \* items handed to Actor.pushData, in order
    totalDataPoints,  \* counter of main.js:67
    processedTables,  \* counter of main.js:68
    calls,            \* API calls and sleeps started so far, in order
    now,              \* the clock read by new Date()
    \* ---- calls of normalizeStatisticalData on their own
    nRaw, nMeta, nOut1, nOut2, nPc, nT1, nNow,
    \* ---- calls of determineDataType on their own
    tTitle, tResult

pvars == <<pc, input, hasKey, statsList, idx, metadata, statsData, err, emitted,
           totalDataPoints, processedTables, calls, now>>
nvars == <<nRaw, nMeta, nOut1, nOut2, nPc, nT1, nNow>>
tvars == <<tTitle, tResult>>
vars == <<pvars, nvars, tvars>>

-----------------------------------------------------------------------------
(* Bounds of the model *)

\* longest title handed to determineDataType on its own
MaxTitleLen == 3
\* most value rows of a generated payload
MaxRows == 2
\* most tables the search collaborator returns
MaxCandidates == 2
\* ticks the clock may advance between two normalization calls
MaxClock == 2

-----------------------------------------------------------------------------
(* JavaScript values *)

Null == [null |-> TRUE]
\* {}
EmptyObject == [k \in {} |-> k]
Nullish(x) == "null" \in DOMAIN x
IsArray(x) == "arr" \in DOMAIN x
\* Array.isArray(x) ? x : [x]
ToList(x) == IF IsArray(x) THEN x.arr ELSE <<x>>

\* String.prototype.includes on token sequences (the empty text is included
\* in every text)
Includes(s, sub) ==
    \E i \in 0..(Len(s) - Len(sub)) : \A j \in 1..Len(sub) : s[i + j] = sub[j]

UpperToLower ==
    [POPULATION |-> "population", Population |-> "population",
     GDP |-> "gdp", Gdp |-> "gdp",
     LABOR |-> "labor", Labor |-> "labor",
     INDUSTRY |-> "industry", Industry |-> "industry",
     EDUCATION |-> "education", Education |-> "education",
     HEALTH |-> "health", Health |-> "health",
     ENVIRONMENT |-> "environment", Environment |-> "environment",
     XYZ |-> "xyz", Unknown |-> "unknown", Statistic |-> "statistic",
     General |-> "general"]

\* String.prototype.toLowerCase: kanji and lower-case words are unchanged
ToLowerCase(s) ==
    [i \in 1..Len(s) |->
        IF s[i] \in DOMAIN UpperToLower THEN UpperToLower[s[i]] ELSE s[i]]

RECURSIVE TrimStart(_)
TrimStart(s) == IF s # <<>> /\ Head(s) = " " THEN TrimStart(Tail(s)) ELSE s
RECURSIVE TrimEnd(_)
TrimEnd(s) ==
    IF s # <<>> /\ s[Len(s)] = " " THEN TrimEnd(SubSeq(s, 1, Len(s) - 1)) ELSE s
\* String.prototype.trim
Trim(s) == TrimEnd(TrimStart(s))

ToISOString(t) == <<"iso", t>>

DigitVal ==
    ("0" :> 0) @@ ("1" :> 1) @@ ("2" :> 2) @@ ("3" :> 3) @@ ("4" :> 4) @@
    ("5" :> 5) @@ ("6" :> 6) @@ ("7" :> 7) @@ ("8" :> 8) @@ ("9" :> 9)

RECURSIVE ScanDigits(_, _, _)
\* reads the decimal digits of s from position i on: the position after the
\* last digit read and the number read, acc being the number read so far
ScanDigits(s, i, acc) ==
    IF i <= Len(s) /\ s[i] \in DOMAIN DigitVal
    THEN ScanDigits(s, i + 1, 10 * acc + DigitVal[s[i]])
    ELSE [next |-> i, n |-> acc]

NaN == [nan |-> TRUE]
\* parseFloat on a sequence of characters (integers only): an optional sign,
\* then the longest prefix of digits; NaN when there is none.  parseFloat of
\* undefined (the key is absent) is NaN.
ParseFloat(obj, key) ==
    IF key \notin DOMAIN obj THEN NaN
    ELSE LET s == obj[key]
             start == IF s # <<>> /\ Head(s) = "-" THEN 2 ELSE 1
             r == ScanDigits(s, start, 0)
         IN  IF r.next = start THEN NaN
             ELSE [nan |-> FALSE, n |-> IF start = 2 THEN 0 - r.n ELSE r.n]

\* a mutant: a NaN is not replaced (it is shown as -1)
NumberOrZero_KeepNaN(x) == IF x.nan THEN 0 - 1 ELSE x.n

\* x || 0 for a number x
NumberOrZero(x) == IF x.nan \/ x.n = 0 THEN 0 ELSE x.n

-----------------------------------------------------------------------------
(* determineDataType (utils.js) *)

KwPopulation == {<<"U+4EBA", "U+53E3">>, <<"population">>}
KwEconomic == {<<"U+7D4C", "U+6E08">>, <<"gdp">>}
KwLabor == {<<"U+52B4", "U+50CD">>, <<"U+96C7", "U+7528">>, <<"labor">>}
KwIndustry == {<<"U+7523", "U+696D">>, <<"industry">>}
KwEducation == {<<"U+6559", "U+80B2">>, <<"education">>}
KwHealth == {<<"U+533B", "U+7642">>, <<"health">>}
KwEnvironment == {<<"U+74B0", "U+5883">>, <<"environment">>}

IncludesAny(name, kws) == \E k \in kws : Includes(name, k)

\* a mutant: the labor test moved before the population test
determineDataType_LaborFirst(statName) ==
    LET name == ToLowerCase(statName)
    IN  IF IncludesAny(name, KwLabor) THEN "labor"
        ELSE IF IncludesAny(name, KwPopulation) THEN "population"
        ELSE IF IncludesAny(name, KwEconomic) THEN "economic"
        ELSE IF IncludesAny(name, KwIndustry) THEN "industry"
        ELSE IF IncludesAny(name, KwEducation) THEN "education"
        ELSE IF IncludesAny(name, KwHealth) THEN "health"
        ELSE IF IncludesAny(name, KwEnvironment) THEN "environment"
        ELSE "general"

determineDataType(statName) ==
    LET name == ToLowerCase(statName)
    IN  IF IncludesAny(name, KwPopulation) THEN "population"
        ELSE IF IncludesAny(name, KwEconomic) THEN "economic"
        ELSE IF IncludesAny(name, KwLabor) THEN "labor"
        ELSE IF IncludesAny(name, KwIndustry) THEN "industry"
        ELSE IF IncludesAny(name, KwEducation) THEN "education"
        ELSE IF IncludesAny(name, KwHealth) THEN "health"
        ELSE IF IncludesAny(name, KwEnvironment) THEN "environment"
        ELSE "general"

-----------------------------------------------------------------------------
(* normalizeStatisticalData (utils.js) *)

\* the attribute keys a value row may carry, as characters: the first
\* character and the rest
KeyChars ==
    ("$" :> <<"$", "">>) @@ ("@unit" :> <<"@", "unit">>) @@
    ("@area" :> <<"@", "area">>) @@ ("@region" :> <<"@", "region">>) @@
    ("@cat01" :> <<"@", "cat01">>) @@ ("@tab" :> <<"@", "tab">>) @@
    ("@cat02" :> <<"@", "cat02">>) @@ ("@cat03" :> <<"@", "cat03">>)
\* key.startsWith('@')
StartsWithAt(key) == KeyChars[key][1] = "@"
\* key.substring(1)
Substring1(key) == KeyChars[key][2]

TypeErrorOf(what, prop) ==
    <<"Cannot", "read", "properties", "of", what, "(reading", prop, ")">>

\* obj?.[key] || dflt, for text and for atomic strings
TextOr(obj, key, dflt) ==
    IF ~Nullish(obj) /\ key \in DOMAIN obj /\ obj[key] # <<>> THEN obj[key] ELSE dflt
StrOr(obj, key, dflt) ==
    IF ~Nullish(obj) /\ key \in DOMAIN obj /\ obj[key] # "" THEN obj[key] ELSE dflt

UnknownStatistic == <<"Unknown", " ", "Statistic">>

\* rawData.TABLE_INF (undefined when the key is absent)
TableInfOf(rawData) == IF "TABLE_INF" \in DOMAIN rawData THEN rawData.TABLE_INF ELSE Null

RECURSIVE ReduceClassItems(_, _)
\* classItems.reduce((acc, item) => { acc[item['@code']] = item['@name'] }, {})
ReduceClassItems(items, acc) ==
    IF items = <<>> THEN acc
    ELSE LET item == Head(items)
         IN  ReduceClassItems(Tail(items),
                 [c \in DOMAIN acc \cup {item["@code"]} |->
                     IF c = item["@code"] THEN item["@name"] ELSE acc[c]])

RECURSIVE ForEachClass(_, _)
\* classes.forEach(cls => { if (cls.CLASS) classObj[cls['@id']] = ... })
ForEachClass(classes, classObj) ==
    IF classes = <<>> THEN classObj
    ELSE LET cls == Head(classes)
             next ==
                 IF "CLASS" \in DOMAIN cls /\ ~Nullish(cls.CLASS)
                 THEN [k \in DOMAIN classObj \cup {cls["@id"]} |->
                          IF k = cls["@id"]
                          THEN ReduceClassItems(ToList(cls.CLASS), EmptyObject)
                          ELSE classObj[k]]
                 ELSE classObj
         IN  ForEachClass(Tail(classes), next)

\* const classInf = rawData.CLASS_INF: the metadata argument is not read
ClassInfOf(rawData, meta) ==
    IF "CLASS_INF" \in DOMAIN rawData THEN rawData.CLASS_INF ELSE Null

\* whether building classObj raises a TypeError: a null class group, or a
\* null entry of a group
ClassBuildThrows(classInf) ==
    /\ ~Nullish(classInf)
    /\ "CLASS_OBJ" \in DOMAIN classInf
    /\ ~Nullish(classInf.CLASS_OBJ)
    /\ LET classes == ToList(classInf.CLASS_OBJ)
       IN  \E i \in 1..Len(classes) :
              \/ Nullish(classes[i])
              \/ /\ "CLASS" \in DOMAIN classes[i]
                 /\ ~Nullish(classes[i].CLASS)
                 /\ LET items == ToList(classes[i].CLASS)
                    IN  \E j \in 1..Len(items) : Nullish(items[j])

\* the classObj of lines 251-263, when building it raises nothing
BuildClassObj(classInf) ==
    IF ~Nullish(classInf) /\ "CLASS_OBJ" \in DOMAIN classInf
       /\ ~Nullish(classInf.CLASS_OBJ)
    THEN ForEachClass(ToList(classInf.CLASS_OBJ), EmptyObject)
    ELSE EmptyObject

\* classObj[classId]?.[code] || code
Resolve(classObj, classId, code) ==
    IF classId \in DOMAIN classObj /\ code \in DOMAIN classObj[classId]
       /\ classObj[classId][code] # ""
    THEN classObj[classId][code] ELSE code

\* the categories object of one value row (lines 272-279)
Categories(valueItem, classObj) ==
    LET keys == {k \in DOMAIN valueItem : StartsWithAt(k) /\ k # "@unit"}
    IN  [classId \in {Substring1(k) : k \in keys} |->
            LET key == CHOOSE k \in keys : Substring1(k) = classId
            IN  Resolve(classObj, classId, valueItem[key])]

\* categories.a || categories.b || dflt
FirstTruthy(categories, a, b, dflt) ==
    IF a \in DOMAIN categories /\ categories[a] # "" THEN categories[a]
    ELSE IF b \in DOMAIN categories /\ categories[b] # "" THEN categories[b]
    ELSE dflt

\* a mutant: lastUpdated is always read from the clock
LastUpdated_AlwaysClock(tableInf, t) == ToISOString(t)

\* tableInf?.UPDATED_DATE || new Date().toISOString()
LastUpdated(tableInf, t) ==
    IF ~Nullish(tableInf) /\ "UPDATED_DATE" \in DOMAIN tableInf
    THEN tableInf.UPDATED_DATE ELSE ToISOString(t)

\* the record pushed for one value row (lines 269-298)
RowRecord(valueItem, tableInf, classObj, sourceTableId, t) ==
    LET statName == TextOr(tableInf, "TITLE", UnknownStatistic)
        categories == Categories(valueItem, classObj)
    IN  [statName |-> statName,
         surveyDate |-> StrOr(tableInf, "SURVEY_DATE", "Unknown Date"),
         region |-> FirstTruthy(categories, "area", "region", "Japan"),
         category1 |-> FirstTruthy(categories, "cat01", "tab", "General"),
         category2 |-> FirstTruthy(categories, "cat02", "cat03", ""),
         value |-> NumberOrZero(ParseFloat(valueItem, "$")),
         unit |-> StrOr(valueItem, "@unit", ""),
         sourceTableId |-> sourceTableId,
         dataType |-> determineDataType(statName),
         lastUpdated |-> LastUpdated(tableInf, t),
         metadata |-> [tableTitle |-> statName,
                       categories |-> categories,
                       originalAttributes |-> valueItem],
         extractedAt |-> ToISOString(t)]

\* the record pushed by the catch block (lines 303-316)
ErrorRecord(rawData, message, sourceTableId, t) ==
    [statName |-> TextOr(TableInfOf(rawData), "TITLE", UnknownStatistic),
     surveyDate |-> StrOr(TableInfOf(rawData), "SURVEY_DATE", "Unknown Date"),
     region |-> "Japan",
     category1 |-> "General",
     category2 |-> "",
     value |-> 0,
     unit |-> "",
     sourceTableId |-> sourceTableId,
     dataType |-> "unknown",
     lastUpdated |-> ToISOString(t),
     metadata |-> [error |-> message, rawData |-> rawData],
     extractedAt |-> ToISOString(t)]

\* the value rows of the payload: dataInf?.VALUE coerced to a list, no row
\* when the container is absent
ValueRows(rawData) ==
    IF "DATA_INF" \in DOMAIN rawData /\ ~Nullish(rawData.DATA_INF)
       /\ "VALUE" \in DOMAIN rawData.DATA_INF /\ ~Nullish(rawData.DATA_INF.VALUE)
    THEN ToList(rawData.DATA_INF.VALUE)
    ELSE <<>>

RECURSIVE ForEachValue(_, _, _, _, _)
\* values.forEach(...): the records pushed before the first row that raises
ForEachValue(values, tableInf, classObj, sourceTableId, t) ==
    IF values = <<>> THEN [threw |-> FALSE, records |-> <<>>]
    ELSE IF Nullish(Head(values)) THEN [threw |-> TRUE, records |-> <<>>]
    ELSE LET rest == ForEachValue(Tail(values), tableInf, classObj, sourceTableId, t)
         IN  [threw |-> rest.threw,
              records |-> <<RowRecord(Head(values), tableInf, classObj,
                                      sourceTableId, t)>> \o rest.records]

\* normalizedData.push(errorRecord) in the catch block: normalizedData keeps
\* what the try block pushed
CatchPush(normalizedData, errorRecord) == Append(normalizedData, errorRecord)

\* a mutant: the records of the value rows are returned last row first
normalizeStatisticalData_Reversed(rawData, meta, sourceTableId, t) ==
    IF Nullish(rawData)
    THEN [threw |-> TRUE, error |-> TypeErrorOf("undefined", "TABLE_INF"),
          records |-> <<>>]
    ELSE LET r == ForEachValue(ValueRows(rawData), TableInfOf(rawData),
                               BuildClassObj(ClassInfOf(rawData, meta)),
                               sourceTableId, t)
         IN  [threw |-> FALSE, error |-> <<>>,
              records |-> [i \in 1..Len(r.records) |->
                              r.records[Len(r.records) + 1 - i]]]

\* normalizeStatisticalData(rawData, metadata, sourceTableId) called at clock
\* tick t: [threw, error, records].  With a null payload the try block raises
\* at rawData.TABLE_INF and the catch block raises again at the same read.
normalizeStatisticalData(rawData, meta, sourceTableId, t) ==
    IF Nullish(rawData)
    THEN [threw |-> TRUE, error |-> TypeErrorOf("undefined", "TABLE_INF"),
          records |-> <<>>]
    ELSE LET tableInf == TableInfOf(rawData)
             classInf == ClassInfOf(rawData, meta)
         IN  IF ClassBuildThrows(classInf)
             THEN [threw |-> FALSE, error |-> <<>>,
                   records |-> CatchPush(<<>>,
                       ErrorRecord(rawData, TypeErrorOf("null", "CLASS"),
                                   sourceTableId, t))]
             ELSE LET r == ForEachValue(ValueRows(rawData), tableInf,
                                        BuildClassObj(classInf), sourceTableId, t)
                  IN  [threw |-> FALSE, error |-> <<>>,
                       records |->
                           IF r.threw
                           THEN CatchPush(r.records,
                                    ErrorRecord(rawData, TypeErrorOf("null", "$"),
                                                sourceTableId, t))
                           ELSE r.records]

-----------------------------------------------------------------------------
(* The payloads and metadata documents the calls are made with *)

Obj2(k1, v1, k2, v2) == (k1 :> v1) @@ (k2 :> v2)
ClassItem(code, name) == Obj2("@code", code, "@name", name)
Digits125836021 == <<"1", "2", "5", "8", "3", "6", "0", "2", "1">>

\* {'@area':'00000','@unit':'U+4EBA','$':'125836021'}
ScenarioRow ==
    ("@area" :> "00000") @@ ("@unit" :> "U+4EBA") @@ ("$" :> Digits125836021)
\* {CLASS_OBJ: {'@id':'area', CLASS: [{'@code':'00000','@name':'U+5168U+56FD'}]}}
ScenarioClassInf ==
    [CLASS_OBJ |->
        ("@id" :> "area") @@
        ("CLASS" :> [arr |-> <<ClassItem("00000", "U+5168U+56FD")>>])]
\* METADATA_INF as getMetaInfo returns it, and the bare document of the scenario
ScenarioMetadata == [CLASS_OBJ |-> ScenarioClassInf.CLASS_OBJ, CLASS_INF |-> ScenarioClassInf]

RowSet ==
    { ScenarioRow,
      \* an unparsable number, an area whose stored label is empty
      ("@area" :> "13000") @@ ("@cat01" :> "A1") @@ ("$" :> <<"a", "b", "c">>),
      \* an empty area code beside a region, secondary keys only
      ("@area" :> "") @@ ("@region" :> "R9") @@ ("@tab" :> "T1") @@
          ("@cat03" :> "C3") @@ ("@unit" :> "") @@ ("$" :> <<"7", "x">>),
      \* a row with no attribute at all
      EmptyObject,
      \* a null entry of the VALUE array
      Null }

ClassInfSet ==
    { ScenarioClassInf,
      \* a list of groups; the label of area 13000 is the empty string
      [CLASS_OBJ |-> [arr |-> <<
          ("@id" :> "area") @@
          ("CLASS" :> [arr |-> <<ClassItem("00000", "U+5168U+56FD"),
                                 ClassItem("13000", "")>>]),
          ("@id" :> "cat01") @@ ("CLASS" :> ClassItem("A1", "Total")),
          ("@id" :> "tab") @@ ("CLASS" :> Null) >>]],
      \* a list of groups holding a null group
      [CLASS_OBJ |-> [arr |-> <<Null>>]],
      \* no CLASS_OBJ
      EmptyObject }

TitlePopulation == <<"U+4EBA", "U+53E3">>
TableInfSet ==
    { [TITLE |-> TitlePopulation, SURVEY_DATE |-> "2020",
       UPDATED_DATE |-> <<"date", 20210625>>],
      [TITLE |-> <<>>] }

RowSeqs == UNION {[1..n -> RowSet] : n \in 0..MaxRows}
DataInfSet ==
    {[VALUE |-> [arr |-> rs]] : rs \in RowSeqs}
        \cup {[VALUE |-> r] : r \in RowSet}
        \cup {EmptyObject}

\* an object with the keys of ks, each with a value of its set
Optional(key, set) == {EmptyObject} \cup {(key :> v) : v \in set}
PayloadSet ==
    {Null} \cup
    {t @@ c @@ d : t \in Optional("TABLE_INF", TableInfSet),
                   c \in Optional("CLASS_INF", ClassInfSet),
                   d \in Optional("DATA_INF", DataInfSet)}

MetadataSet == {Null, ScenarioMetadata}

NoResult == [threw |-> FALSE, error |-> <<>>, records |-> <<>>]

-----------------------------------------------------------------------------
(* normalizeStatisticalData and determineDataType called on their own *)

PipeIdle ==
    /\ pc = "idle" /\ input = EmptyObject /\ hasKey = FALSE /\ statsList = <<>>
    /\ idx = 0 /\ metadata = Null /\ statsData = Null /\ err = <<>>
    /\ emitted = <<>> /\ totalDataPoints = 0 /\ processedTables = 0
    /\ calls = <<>> /\ now = 0
NormIdle ==
    /\ nRaw = Null /\ nMeta = Null /\ nOut1 = NoResult /\ nOut2 = NoResult
    /\ nPc = "idle" /\ nT1 = 0 /\ nNow = 0
ClassifyIdle == tTitle = <<>> /\ tResult = ""

NormInit ==
    /\ nRaw \in PayloadSet
    /\ nMeta \in MetadataSet
    /\ nOut1 = NoResult /\ nOut2 = NoResult
    /\ nPc = "init" /\ nT1 = 0 /\ nNow = 0
    /\ PipeIdle /\ ClassifyIdle

\* the clock advances between calls
NormTick ==
    /\ nPc \in {"init", "first"}
    /\ nNow < MaxClock
    /\ nNow' = nNow + 1
    /\ UNCHANGED <<nRaw, nMeta, nOut1, nOut2, nPc, nT1, pvars, tvars>>

NormFirst ==
    /\ nPc = "init"
    /\ nOut1' = normalizeStatisticalData(nRaw, nMeta, "0003448738", nNow)
    /\ nT1' = nNow
    /\ nPc' = "first"
    /\ UNCHANGED <<nRaw, nMeta, nOut2, nNow, pvars, tvars>>

NormSecond ==
    /\ nPc = "first"
    /\ nOut2' = normalizeStatisticalData(nRaw, nMeta, "0003448738", nNow)
    /\ nPc' = "second"
    /\ UNCHANGED <<nRaw, nMeta, nOut1, nT1, nNow, pvars, tvars>>

NormNext == NormTick \/ NormFirst \/ NormSecond
NormSpec == NormInit /\ [][NormNext]_vars

TitleTokens ==
    {"U+4EBA", "U+53E3", "U+52B4", "U+50CD", "Population", "LABOR", "gdp", "XYZ"}
TitleSet == UNION {[1..n -> TitleTokens] : n \in 0..MaxTitleLen}

ClassifyInit ==
    /\ tTitle \in TitleSet
    /\ tResult = ""
    /\ PipeIdle /\ NormIdle

Classify ==
    /\ tResult = ""
    /\ tResult' = determineDataType(tTitle)
    /\ UNCHANGED <<tTitle, pvars, nvars>>

ClassifyNext == Classify
ClassifySpec == ClassifyInit /\ [][ClassifyNext]_vars

-----------------------------------------------------------------------------
(* validateInput (utils.js) and the fetch wrappers *)

Min(a, b) == IF a < b THEN a ELSE b
Max(a, b) == IF a > b THEN a ELSE b
\* a mutant: the list is not cut
Slice0_NoCut(arr, n) == arr

\* array.slice(0, n) for n >= 0
Slice0(arr, n) == SubSeq(arr, 1, Min(Len(arr), n))

\* Math.min(Math.max(n, 1), 100)
ClampMaxItems(n) == Min(Max(n, 1), 100)

\* validateInput(input): an absent maxItems parses to NaN, and NaN || 10 and
\* 0 || 10 are 10
validateInput(raw) ==
    [searchKeyword |->
        IF "searchKeyword" \in DOMAIN raw THEN Trim(raw.searchKeyword) ELSE <<>>,
     surveyYears |-> <<>>,
     statsField |-> <<>>,
     maxItems |->
        ClampMaxItems(IF "maxItems" \in DOMAIN raw /\ raw.maxItems # 0
                      THEN raw.maxItems ELSE 10),
     includeMetadata |->
        ~("includeMetadata" \in DOMAIN raw /\ raw.includeMetadata = FALSE),
     outputFormat |->
        IF "outputFormat" \in DOMAIN raw
           /\ raw.outputFormat \in {"structured", "raw", "both"}
        THEN raw.outputFormat ELSE "structured"]

RawInputSet ==
    {k @@ m @@ i @@ o :
        k \in Optional("searchKeyword",
                 {<<" ", "LABOR", " ">>, <<"U+4EBA", "U+53E3">>, <<"XYZ">>}),
        m \in Optional("maxItems", {-5, 0, 1, 2, 150}),
        i \in Optional("includeMetadata", {FALSE}),
        o \in Optional("outputFormat", {"raw", "both", "csv"})}

\* handleApiError(error, context): the message of the Error it throws
handleApiError(error, context) ==
    LET prefix == <<"e-Stat", "API", "Error", "(">> \o context \o <<")", ":">>
    IN  IF error.kind = "response"
        THEN prefix \o <<"Status", error.status, "-">> \o
             (IF "ERROR_MSG" \in DOMAIN error.data
              THEN error.data.ERROR_MSG ELSE <<"Unknown", "API", "error">>)
        ELSE IF error.kind = "request"
        THEN prefix \o <<"No", "response", "received", "from", "server.">>
        ELSE prefix \o error.message

\* the Error thrown inside the try block when RESULT.STATUS is not '0'; it
\* has neither response nor request
StatusError(data) ==
    [kind |-> "thrown",
     message |-> <<"e-Stat", "API", "Error", ":">> \o
                 (IF "ERROR_MSG" \in DOMAIN data
                  THEN data.ERROR_MSG ELSE <<"Unknown", "error">>)]

\* what apiClient.get settles with: a response body (kind "ok": RESULT and
\* the section of the call), or an axios error
ErrorOutcomes ==
    {[kind |-> "response", status |-> st, data |-> EmptyObject] :
        st \in {"401", "403", "500"}}
    \cup {[kind |-> "request"],
          [kind |-> "setup", message |-> <<"timeout", "exceeded">>],
          [kind |-> "ok",
           data |-> [STATUS |-> "1", ERROR_MSG |-> <<"no", "data">>]]}

Table(i) ==
    ("@id" :> <<"T1", "T2", "T3", "T4", "T5">>[i]) @@ ("TITLE" :> TitlePopulation)
SearchOutcomes ==
    ErrorOutcomes
    \cup {[kind |-> "ok", data |-> [STATUS |-> "0"]],
          [kind |-> "ok", data |-> [STATUS |-> "0", TABLE_INF |-> Table(1)]]}
    \cup {[kind |-> "ok",
           data |-> [STATUS |-> "0", TABLE_INF |-> [arr |-> [i \in 1..n |-> Table(i)]]]] :
             n \in 0..MaxCandidates}

\* getStatsList: [ok, value] or [ok, message]
getStatsList(outcome) ==
    IF outcome.kind = "ok"
    THEN IF outcome.data.STATUS = "0"
         THEN [ok |-> TRUE,
               value |-> IF "TABLE_INF" \in DOMAIN outcome.data
                         THEN ToList(outcome.data.TABLE_INF) ELSE <<>>]
         ELSE [ok |-> FALSE,
               message |-> handleApiError(StatusError(outcome.data), <<"getStatsList">>)]
    ELSE [ok |-> FALSE, message |-> handleApiError(outcome, <<"getStatsList">>)]

MetaOutcomes ==
    {[kind |-> "ok", data |-> [STATUS |-> "0", METADATA_INF |-> ScenarioMetadata]],
     [kind |-> "request"]}

\* getMetaInfo
getMetaInfo(outcome, statsDataId) ==
    LET context == <<"getMetaInfo", "for", statsDataId>>
    IN  IF outcome.kind = "ok"
        THEN IF outcome.data.STATUS = "0"
             THEN [ok |-> TRUE,
                   value |-> IF "METADATA_INF" \in DOMAIN outcome.data
                             THEN outcome.data.METADATA_INF ELSE Null]
             ELSE [ok |-> FALSE,
                   message |-> handleApiError(StatusError(outcome.data), context)]
        ELSE [ok |-> FALSE, message |-> handleApiError(outcome, context)]

\* a payload of two rows with its own classification section
GoodPayload ==
    [TABLE_INF |-> [TITLE |-> TitlePopulation, SURVEY_DATE |-> "2020"],
     CLASS_INF |-> ScenarioClassInf,
     DATA_INF |-> [VALUE |-> [arr |-> <<
         ScenarioRow,
         ("@area" :> "13000") @@ ("@cat01" :> "A1") @@ ("$" :> <<"4", "2">>)>>]]]
DataOutcomes ==
    {[kind |-> "ok", data |-> [STATUS |-> "0", STATISTICAL_DATA |-> GoodPayload]],
     \* RESULT.STATUS '0' and no STATISTICAL_DATA section
     [kind |-> "ok", data |-> [STATUS |-> "0"]],
     [kind |-> "response", status |-> "500", data |-> EmptyObject],
     [kind |-> "ok", data |-> [STATUS |-> "1", ERROR_MSG |-> <<"no", "data">>]]}

\* getStatsData: response.data.GET_STATS_DATA.STATISTICAL_DATA is undefined
\* when the section is absent
getStatsData(outcome, statsDataId) ==
    LET context == <<"getStatsData", "for", statsDataId>>
    IN  IF outcome.kind = "ok"
        THEN IF outcome.data.STATUS = "0"
             THEN [ok |-> TRUE,
                   value |-> IF "STATISTICAL_DATA" \in DOMAIN outcome.data
                             THEN outcome.data.STATISTICAL_DATA ELSE Null]
             ELSE [ok |-> FALSE,
                   message |-> handleApiError(StatusError(outcome.data), context)]
        ELSE [ok |-> FALSE, message |-> handleApiError(outcome, context)]

-----------------------------------------------------------------------------
(* runDemoMode (main.js) *)

\* the characters of the atomic strings the keyword filter reads
CharsOf ==
    ("population" :> <<"population">>) @@ ("labor" :> <<"labor">>) @@
    ("U+7DCFU+4EBAU+53E3" :> <<"U+7DCF", "U+4EBA", "U+53E3">>) @@
    ("U+5C31U+696DU+8005" :> <<"U+5C31", "U+696D", "U+8005">>)

demoData(t) ==
    << [statName |-> <<"U+56FD", "U+52E2", "U+8ABF", "U+67FB", " ",
                       "U+4EBA", "U+53E3", "U+7DCF", "U+6570">>,
        surveyDate |-> "2020",
        region |-> "U+5168U+56FD",
        category1 |-> "U+7DCFU+4EBAU+53E3",
        category2 |-> "U+7537U+5973U+8A08",
        value |-> 125836021,
        unit |-> "U+4EBA",
        sourceTableId |-> "demo_001",
        dataType |-> "population",
        lastUpdated |-> <<"date", 20210625>>,
        metadata |-> [note |-> "This is demo data"],
        extractedAt |-> ToISOString(t)],
       [statName |-> <<"U+52B4", "U+50CD", "U+529B", "U+8ABF", "U+67FB", " ",
                       "U+5C31", "U+696D", "U+8005", "U+6570">>,
        surveyDate |-> "2023-12",
        region |-> "U+5168U+56FD",
        category1 |-> "U+5C31U+696DU+8005",
        category2 |-> "U+7DCFU+6570",
        value |-> 67230000,
        unit |-> "U+4EBA",
        sourceTableId |-> "demo_002",
        dataType |-> "labor",
        lastUpdated |-> <<"date", 20240130>>,
        metadata |-> [note |-> "This is demo data"],
        extractedAt |-> ToISOString(t)] >>

\* item => statName, category1 or dataType includes the lower-cased keyword
MatchesKeyword(item, keyword) ==
    \/ Includes(ToLowerCase(item.statName), keyword)
    \/ Includes(ToLowerCase(CharsOf[item.category1]), keyword)
    \/ Includes(ToLowerCase(CharsOf[item.dataType]), keyword)

RECURSIVE Filter(_, _)
Filter(items, keyword) ==
    IF items = <<>> THEN <<>>
    ELSE (IF MatchesKeyword(Head(items), keyword) THEN <<Head(items)>> ELSE <<>>)
         \o Filter(Tail(items), keyword)

\* filteredData of lines 223-232
filteredData(in, t) ==
    Slice0(IF in.searchKeyword # <<>>
           THEN Filter(demoData(t), ToLowerCase(in.searchKeyword))
           ELSE demoData(t),
           in.maxItems)

\* a mutant: the summary counts the samples before the filter and the cut
runDemoMode_CountAll(in, t) ==
    LET data == filteredData(in, t)
    IN  data \o << [type |-> "demo_summary",
                    demoDataPoints |-> Len(demoData(t)),
                    searchCriteria |-> in,
                    completedAt |-> ToISOString(t)] >>

\* the items runDemoMode pushes
runDemoMode(in, t) ==
    LET data == filteredData(in, t)
    IN  data \o << [type |-> "demo_summary",
                    demoDataPoints |-> Len(data),
                    searchCriteria |-> in,
                    completedAt |-> ToISOString(t)] >>

-----------------------------------------------------------------------------
(* mainLogic (main.js) *)

\* an entry of the call log: the call, its table, whether it succeeded, how
\* many tables it returned (the search), how many items were emitted before it
Call(api, tableId, ok, count) ==
    [api |-> api, tableId |-> tableId, ok |-> ok, count |-> count,
     at |-> Len(emitted)]
table == statsList[idx]

Init ==
    /\ pc = "start"
    /\ \E raw \in RawInputSet : input = validateInput(raw)
    /\ hasKey \in BOOLEAN
    /\ statsList = <<>> /\ idx = 0
    /\ metadata = Null /\ statsData = Null /\ err = <<>>
    /\ emitted = <<>> /\ totalDataPoints = 0 /\ processedTables = 0
    /\ calls = <<>> /\ now = 0
    /\ NormIdle /\ ClassifyIdle

\* a mutant: the run returns without pushing anything when no table is found
NoTablesItems_None(in, t) == <<>>

\* lines 52-58: the item pushed when the search finds no table
NoTablesItems(in, t) ==
    << [message |-> "No statistical tables found",
        searchParams |-> [searchWord |-> in.searchKeyword,
                          limit |-> Min(in.maxItems * 2, 100)],
        extractedAt |-> ToISOString(t)] >>

\* lines 27-34: no API key, demo mode
DemoMode ==
    /\ pc = "start" /\ ~hasKey
    /\ emitted' = emitted \o runDemoMode(input, now)
    /\ pc' = "done"
    /\ UNCHANGED <<input, hasKey, statsList, idx, metadata, statsData, err,
                   totalDataPoints, processedTables, calls, now, nvars, tvars>>

\* lines 36-68: the search call, the no-table exit, the cut to maxItems
Search ==
    /\ pc = "start" /\ hasKey
    /\ \E outcome \in SearchOutcomes :
         LET r == getStatsList(outcome)
         IN  /\ calls' = Append(calls,
                    Call("getStatsList", "", r.ok, IF r.ok THEN Len(r.value) ELSE 0))
             /\ IF ~r.ok
                THEN /\ err' = r.message
                     /\ pc' = "outerCatch"
                     /\ UNCHANGED <<statsList, emitted>>
                ELSE IF Len(r.value) = 0
                THEN /\ emitted' = emitted \o NoTablesItems(input, now)
                     /\ pc' = "done"
                     /\ UNCHANGED <<statsList, err>>
                ELSE /\ statsList' = Slice0(r.value, input.maxItems)
                     /\ pc' = "loop"
                     /\ UNCHANGED <<err, emitted>>
    /\ UNCHANGED <<input, hasKey, idx, metadata, statsData, totalDataPoints,
                   processedTables, now, nvars, tvars>>

\* lines 70-81: the next table of the loop, or the end of the loop
NextTable ==
    /\ pc = "loop"
    /\ IF idx < Len(statsList)
       THEN /\ idx' = idx + 1
            /\ processedTables' = processedTables + 1
            /\ metadata' = Null
            /\ pc' = IF input.includeMetadata THEN "meta" ELSE "data"
       ELSE /\ pc' = "summary"
            /\ UNCHANGED <<idx, processedTables, metadata>>
    /\ UNCHANGED <<input, hasKey, statsList, statsData, err, emitted,
                   totalDataPoints, calls, now, nvars, tvars>>

\* a mutant: a failure of the metadata fetch goes to the catch of the table
FetchMetadata_Fatal ==
    /\ pc = "meta"
    /\ \E outcome \in MetaOutcomes :
         LET r == getMetaInfo(outcome, table["@id"])
         IN  /\ calls' = Append(calls, Call("getMetaInfo", table["@id"], r.ok, 0))
             /\ IF r.ok
                THEN metadata' = r.value /\ pc' = "data" /\ UNCHANGED err
                ELSE err' = r.message /\ pc' = "tableCatch" /\ UNCHANGED metadata
    /\ UNCHANGED <<input, hasKey, statsList, idx, statsData, emitted,
                   totalDataPoints, processedTables, now, nvars, tvars>>

\* lines 82-90: the metadata fetch; a failure is logged and dropped
FetchMetadata ==
    /\ pc = "meta"
    /\ \E outcome \in MetaOutcomes :
         LET r == getMetaInfo(outcome, table["@id"])
         IN  /\ metadata' = IF r.ok THEN r.value ELSE Null
             /\ calls' = Append(calls, Call("getMetaInfo", table["@id"], r.ok, 0))
    /\ pc' = "data"
    /\ UNCHANGED <<input, hasKey, statsList, idx, statsData, err, emitted,
                   totalDataPoints, processedTables, now, nvars, tvars>>

\* lines 94-97: the data fetch; a failure goes to the catch of the table
FetchData ==
    /\ pc = "data"
    /\ \E outcome \in DataOutcomes :
         LET r == getStatsData(outcome, table["@id"])
         IN  /\ calls' = Append(calls, Call("getStatsData", table["@id"], r.ok, 0))
             /\ IF r.ok
                THEN statsData' = r.value /\ pc' = "raw" /\ UNCHANGED err
                ELSE err' = r.message /\ pc' = "tableCatch" /\ UNCHANGED statsData
    /\ UNCHANGED <<input, hasKey, statsList, idx, metadata, emitted,
                   totalDataPoints, processedTables, now, nvars, tvars>>

\* lines 100-109: the raw item
EmitRaw ==
    /\ pc = "raw"
    /\ emitted' =
         IF input.outputFormat \in {"raw", "both"}
         THEN Append(emitted, [type |-> "raw",
                               tableId |-> table["@id"],
                               tableInfo |-> table,
                               metadata |-> metadata,
                               rawData |-> statsData,
                               extractedAt |-> ToISOString(now)])
         ELSE emitted
    /\ pc' = "structured"
    /\ UNCHANGED <<input, hasKey, statsList, idx, metadata, statsData, err,
                   totalDataPoints, processedTables, calls, now, nvars, tvars>>

\* lines 111-120: the structured records, one push and one count each; an
\* exception of the normalizer goes to the catch of the table
EmitStructured ==
    /\ pc = "structured"
    /\ IF input.outputFormat \in {"structured", "both"}
       THEN \E r \in {normalizeStatisticalData(statsData, metadata, table["@id"], now)} :
                IF r.threw
                THEN /\ err' = r.error
                     /\ pc' = "tableCatch"
                     /\ UNCHANGED <<emitted, totalDataPoints>>
                ELSE /\ emitted' = emitted \o r.records
                     /\ totalDataPoints' = totalDataPoints + Len(r.records)
                     /\ pc' = "sleep"
                     /\ UNCHANGED err
       ELSE /\ pc' = "sleep"
            /\ UNCHANGED <<emitted, totalDataPoints, err>>
    /\ UNCHANGED <<input, hasKey, statsList, idx, metadata, statsData,
                   processedTables, calls, now, nvars, tvars>>

\* line 122: the pause after a table that raised nothing
Sleep ==
    /\ pc = "sleep"
    /\ calls' = Append(calls, Call("sleep", table["@id"], TRUE, 0))
    /\ now' = now + 1
    /\ pc' = "loop"
    /\ UNCHANGED <<input, hasKey, statsList, idx, metadata, statsData, err,
                   emitted, totalDataPoints, processedTables, nvars, tvars>>

\* a mutant: the catch of the table reports the error and ends the loop
TableCatch_Abort ==
    /\ pc = "tableCatch"
    /\ emitted' = Append(emitted, [type |-> "error",
                                   tableId |-> table["@id"],
                                   tableTitle |-> table["TITLE"],
                                   error |-> err,
                                   extractedAt |-> ToISOString(now)])
    /\ pc' = "summary"
    /\ UNCHANGED <<input, hasKey, statsList, idx, metadata, statsData, err,
                   totalDataPoints, processedTables, calls, now, nvars, tvars>>

\* a mutant: the catch of the table starts the count of records again
TableCatch_ResetCount ==
    /\ pc = "tableCatch"
    /\ emitted' = Append(emitted, [type |-> "error",
                                   tableId |-> table["@id"],
                                   tableTitle |-> table["TITLE"],
                                   error |-> err,
                                   extractedAt |-> ToISOString(now)])
    /\ totalDataPoints' = 0
    /\ pc' = "loop"
    /\ UNCHANGED <<input, hasKey, statsList, idx, metadata, statsData, err,
                   processedTables, calls, now, nvars, tvars>>

\* a mutant: the catch of the table reports the error and fetches the data of
\* the same table again
TableCatch_Retry ==
    /\ pc = "tableCatch"
    /\ emitted' = Append(emitted, [type |-> "error",
                                   tableId |-> table["@id"],
                                   tableTitle |-> table["TITLE"],
                                   error |-> err,
                                   extractedAt |-> ToISOString(now)])
    /\ pc' = "data"
    /\ UNCHANGED <<input, hasKey, statsList, idx, metadata, statsData, err,
                   totalDataPoints, processedTables, calls, now, nvars, tvars>>

\* lines 124-138: the catch of the table
TableCatch ==
    /\ pc = "tableCatch"
    /\ emitted' = Append(emitted, [type |-> "error",
                                   tableId |-> table["@id"],
                                   tableTitle |-> table["TITLE"],
                                   error |-> err,
                                   extractedAt |-> ToISOString(now)])
    /\ pc' = "loop"
    /\ UNCHANGED <<input, hasKey, statsList, idx, metadata, statsData, err,
                   totalDataPoints, processedTables, calls, now, nvars, tvars>>

\* lines 142-155: the summary
Summary ==
    /\ pc = "summary"
    /\ emitted' = Append(emitted, [type |-> "summary",
                                   tablesProcessed |-> processedTables,
                                   totalDataPoints |-> totalDataPoints,
                                   searchCriteria |-> input,
                                   completedAt |-> ToISOString(now)])
    /\ pc' = "done"
    /\ UNCHANGED <<input, hasKey, statsList, idx, metadata, statsData, err,
                   totalDataPoints, processedTables, calls, now, nvars, tvars>>

\* error.message.includes('403') || ...includes('401') || ...includes('API')
IsAuthMessage(message) ==
    \/ Includes(message, <<"403">>)
    \/ Includes(message, <<"401">>)
    \/ Includes(message, <<"API">>)

\* a mutant: the outer catch reports every error before the fallback
OuterCatch_NoAuthTest ==
    /\ pc = "outerCatch"
    /\ emitted' = Append(emitted, [type |-> "error",
                                   error |-> err,
                                   input |-> input,
                                   extractedAt |-> ToISOString(now)])
                  \o runDemoMode(input, now)
    /\ pc' = "done"
    /\ UNCHANGED <<input, hasKey, statsList, idx, metadata, statsData, err,
                   totalDataPoints, processedTables, calls, now, nvars, tvars>>

\* lines 157-178: the outer catch
OuterCatch ==
    /\ pc = "outerCatch"
    /\ emitted' =
         IF IsAuthMessage(err)
         THEN emitted \o runDemoMode(input, now)
         ELSE Append(emitted, [type |-> "error",
                               error |-> err,
                               input |-> input,
                               extractedAt |-> ToISOString(now)])
              \o runDemoMode(input, now)
    /\ pc' = "done"
    /\ UNCHANGED <<input, hasKey, statsList, idx, metadata, statsData, err,
                   totalDataPoints, processedTables, calls, now, nvars, tvars>>

Next ==
    \/ DemoMode \/ Search \/ NextTable \/ FetchMetadata \/ FetchData
    \/ EmitRaw \/ EmitStructured \/ Sleep \/ TableCatch \/ Summary \/ OuterCatch

Spec == Init /\ [][Next]_vars

-----------------------------------------------------------------------------
(* Properties of normalizeStatisticalData and determineDataType *)

\* N: the number of value rows of a payload
RowCount(rawData) == Len(ValueRows(rawData))
\* the payload holds something the normalizer cannot traverse: a null
\* classification group or entry, or a null value row
Malformed(rawData) ==
    \/ /\ "CLASS_INF" \in DOMAIN rawData
       /\ ClassBuildThrows(rawData.CLASS_INF)
    \/ \E i \in 1..RowCount(rawData) : Nullish(ValueRows(rawData)[i])
IsErrorRecord(r) ==
    r.value = 0 /\ r.dataType = "unknown" /\ "error" \in DOMAIN r.metadata
Returned1 == nPc \in {"first", "second"} /\ ~nOut1.threw

\* C1: a call that returns yields exactly N records for a well-formed payload
\* of N value rows, exactly one synthetic error record when processing fails
\* anywhere in the payload, and never an empty list.
C1_NRecordsOrOneErrorNeverEmpty ==
    Returned1 =>
        /\ ~Malformed(nRaw) => Len(nOut1.records) = RowCount(nRaw)
        /\ Malformed(nRaw) =>
              Len(nOut1.records) = 1 /\ IsErrorRecord(nOut1.records[1])
        /\ Len(nOut1.records) >= 1

\* C2: normalizeStatisticalData never throws to its caller, whatever the
\* payload, the absent payload included.
C2_NeverThrows == nPc \in {"first", "second"} => ~nOut1.threw

\* the key of a value row that names classification classId
KeyOf(row, classId) ==
    CHOOSE k \in DOMAIN row : StartsWithAt(k) /\ k # "@unit" /\ Substring1(k) = classId

\* C7: every category of every record made from a value row is the label the
\* index stores for (classification id, code) when that entry exists, the
\* empty label included, and the code itself when it does not.
C7_ResolvedLabelOrCode ==
    Returned1 =>
        LET index == BuildClassObj(ClassInfOf(nRaw, nMeta))
        IN  \A i \in 1..Len(nOut1.records) :
              LET r == nOut1.records[i]
              IN  ~IsErrorRecord(r) =>
                    \A id \in DOMAIN r.metadata.categories :
                      LET code == r.metadata.originalAttributes[
                                      KeyOf(r.metadata.originalAttributes, id)]
                      IN  r.metadata.categories[id] =
                            IF id \in DOMAIN index /\ code \in DOMAIN index[id]
                            THEN index[id][code] ELSE code

\* C8: with the metadata document of the scenario (class area, 00000 ->
\* U+5168U+56FD) and a well-formed payload whose single value row is the row
\* of the scenario, the call returns one record with that region label, the
\* value 125836021 and the unit U+4EBA.
C8_IndexBuiltFromMetadata ==
    (/\ nPc \in {"first", "second"}
     /\ nMeta = ScenarioMetadata
     /\ ~Nullish(nRaw)
     /\ ValueRows(nRaw) = <<ScenarioRow>>
     /\ ~Malformed(nRaw))
    => /\ ~nOut1.threw
       /\ Len(nOut1.records) = 1
       /\ nOut1.records[1].region = "U+5168U+56FD"
       /\ nOut1.records[1].value = 125836021
       /\ nOut1.records[1].unit = "U+4EBA"

RecordFields ==
    {"statName", "surveyDate", "region", "category1", "category2", "value",
     "unit", "sourceTableId", "dataType", "lastUpdated", "metadata",
     "extractedAt"}
\* two calls ended the same way, with as many records, which agree on fields
SameExcept(o1, o2, fields) ==
    /\ o1.threw = o2.threw
    /\ Len(o1.records) = Len(o2.records)
    /\ \A i \in 1..Len(o1.records) : \A f \in RecordFields \ fields :
          o1.records[i][f] = o2.records[i][f]
CarriesUpdatedDate(rawData) ==
    /\ ~Nullish(rawData)
    /\ "TABLE_INF" \in DOMAIN rawData
    /\ "UPDATED_DATE" \in DOMAIN rawData.TABLE_INF

\* C10 as stated: two calls on the same payload agree on every field but
\* extractedAt, also when the clock advanced and the payload has no update
\* timestamp.
C10_SameExceptExtractedAt ==
    nPc = "second" => SameExcept(nOut1, nOut2, {"extractedAt"})

\* C10 as amended: two calls on the same payload end the same way with as
\* many records, which agree on every field but extractedAt and lastUpdated;
\* lastUpdated agrees too on the records that took it from the payload (the
\* payload carries an update timestamp and the record is not the synthetic
\* error record).
C10_SameExceptClockFields ==
    nPc = "second" =>
        /\ SameExcept(nOut1, nOut2, {"extractedAt", "lastUpdated"})
        /\ \A i \in 1..Len(nOut1.records) :
              (CarriesUpdatedDate(nRaw) /\ ~IsErrorRecord(nOut1.records[i]))
              => nOut1.records[i].lastUpdated = nOut2.records[i].lastUpdated

\* the clock advanced between two calls on a payload with an update timestamp
\* that yielded a record from a value row and a synthetic error record
C10_Witness ==
    /\ nPc = "second"
    /\ nNow > nT1
    /\ CarriesUpdatedDate(nRaw)
    /\ Len(nOut2.records) = 2
    /\ ~IsErrorRecord(nOut2.records[1])
    /\ IsErrorRecord(nOut2.records[2])
    /\ nOut1.records[1].extractedAt # nOut2.records[1].extractedAt

CaseInsensitiveTerm(title, kws) ==
    \E k \in kws : \E i \in 0..(Len(title) - Len(k)) : \A j \in 1..Len(k) :
        LET tok == title[i + j]
        IN  k[j] = IF tok \in DOMAIN UpperToLower THEN UpperToLower[tok] ELSE tok
CategoryOrder ==
    << <<"population", KwPopulation>>, <<"economic", KwEconomic>>,
       <<"labor", KwLabor>>, <<"industry", KwIndustry>>,
       <<"education", KwEducation>>, <<"health", KwHealth>>,
       <<"environment", KwEnvironment>> >>

\* C9: the data type of a title is one of the 8 categories: that of the first
\* keyword set, in the fixed order, with a term in the title whatever its
\* case, and general when no set has one; a title with a population term and
\* a labor term is population.
C9_FirstMatchWins ==
    tResult # "" =>
        LET hits == {i \in 1..7 : CaseInsensitiveTerm(tTitle, CategoryOrder[i][2])}
        IN  /\ tResult \in {CategoryOrder[i][1] : i \in 1..7} \cup {"general"}
            /\ hits = {} => tResult = "general"
            /\ hits # {} =>
                  tResult = CategoryOrder[CHOOSE i \in hits : \A j \in hits : i <= j][1]
            /\ (CaseInsensitiveTerm(tTitle, KwPopulation)
                /\ CaseInsensitiveTerm(tTitle, KwLabor)) => tResult = "population"

\* an upper-case labor term before a capitalised population term
C9_Witness ==
    /\ tTitle = <<"LABOR", "Population">>
    /\ tResult = "population"

\* the numeric field of a value row has no leading number: parseFloat is NaN
Unparsable(row) == ~Nullish(row) /\ ParseFloat(row, "$").nan

\* C11: in a payload that is otherwise well formed, a value row whose numeric
\* field cannot be parsed yields a record with value 0 carrying that row, the
\* call raises nothing and returns one record per row, and the row of the
\* scenario beside it keeps its value 125836021.
C11_UnparsableValueIsZero ==
    (nPc \in {"first", "second"} /\ ~Nullish(nRaw) /\ ~Malformed(nRaw)) =>
        /\ ~nOut1.threw
        /\ Len(nOut1.records) = RowCount(nRaw)
        /\ \A i \in 1..RowCount(nRaw) :
              LET row == ValueRows(nRaw)[i]
              IN  /\ ~IsErrorRecord(nOut1.records[i])
                  /\ nOut1.records[i].metadata.originalAttributes = row
                  /\ Unparsable(row) => nOut1.records[i].value = 0
                  /\ row = ScenarioRow => nOut1.records[i].value = 125836021

\* an unparsable row before the row of the scenario: two records, 0 and the
\* number of the scenario
C11_Witness ==
    /\ nPc = "first"
    /\ RowCount(nRaw) = 2
    /\ Unparsable(ValueRows(nRaw)[1])
    /\ "$" \in DOMAIN ValueRows(nRaw)[1]
    /\ ValueRows(nRaw)[2] = ScenarioRow
    /\ Len(nOut1.records) = 2
    /\ nOut1.records[1].value = 0
    /\ nOut1.records[2].value = 125836021

-----------------------------------------------------------------------------
(* Properties of a run of mainLogic *)

TypeOf(item) == IF "type" \in DOMAIN item THEN item.type ELSE "none"
IsOutputRecord(item) == "type" \notin DOMAIN item /\ "statName" \in DOMAIN item
\* the positions of the emitted items of a kind that belong to table id
ErrorItemsOf(id) ==
    {i \in 1..Len(emitted) :
        TypeOf(emitted[i]) = "error" /\ "tableId" \in DOMAIN emitted[i]
        /\ emitted[i].tableId = id}
DataItemsOf(id) ==
    {i \in 1..Len(emitted) :
        \/ TypeOf(emitted[i]) = "raw" /\ emitted[i].tableId = id
        \/ IsOutputRecord(emitted[i]) /\ emitted[i].sourceTableId = id}
Started(api, id) == \E i \in 1..Len(calls) : calls[i].api = api /\ calls[i].tableId = id
Failed(api, id) ==
    \E i \in 1..Len(calls) :
        calls[i].api = api /\ calls[i].tableId = id /\ ~calls[i].ok
TypesEmitted == {TypeOf(emitted[i]) : i \in 1..Len(emitted)}

\* C3: at the end of a run, every table whose data fetch failed has exactly
\* one error item and no raw or structured item, the data fetch of every
\* later table of the list was started, and the run ended with the summary
\* item, without the sample-data fallback.
C3_DataFetchFailureIsolated ==
    pc = "done" =>
        \A k \in 1..Len(statsList) :
            Failed("getStatsData", statsList[k]["@id"]) =>
                /\ Cardinality(ErrorItemsOf(statsList[k]["@id"])) = 1
                /\ DataItemsOf(statsList[k]["@id"]) = {}
                /\ \A j \in (k + 1)..Len(statsList) :
                      Started("getStatsData", statsList[j]["@id"])
                /\ TypeOf(emitted[Len(emitted)]) = "summary"
                /\ "demo_summary" \notin TypesEmitted

\* the data fetch of the first of two tables failed and the second table
\* yielded its records
C3_Witness ==
    /\ pc = "done"
    /\ Len(statsList) = 2
    /\ Failed("getStatsData", "T1")
    /\ ~Failed("getStatsData", "T2")
    /\ DataItemsOf("T2") # {}
    /\ Cardinality(ErrorItemsOf("T1")) = 1

TablesFetched ==
    {calls[i].tableId : i \in {j \in 1..Len(calls) :
                                 calls[j].api \in {"getMetaInfo", "getStatsData"}}}

\* C4: maxItems is within 1..100, the list of tables to process is cut to it
\* before the loop, and the tables for which a metadata or data fetch was
\* started never outnumber it.
C4_AtMostMaxItemsTables ==
    /\ input.maxItems \in 1..100
    /\ Len(statsList) <= input.maxItems
    /\ Cardinality(TablesFetched) <= input.maxItems

\* the search returned more tables than maxItems and the run fetched maxItems
C4_Witness ==
    /\ pc = "done"
    /\ calls # <<>>
    /\ calls[1].count > input.maxItems
    /\ Cardinality(TablesFetched) = input.maxItems

\* the search call failed with HTTP status 401 or 403
SearchUnauthorized ==
    /\ pc = "done"
    /\ Len(calls) >= 1 /\ calls[1].api = "getStatsList" /\ ~calls[1].ok
    /\ \/ Includes(err, <<"Status", "401">>)
       \/ Includes(err, <<"Status", "403">>)
\* the sample records that match each keyword of the inputs, by table id
SamplesMatching(keyword) ==
    IF keyword = <<>> THEN <<"demo_001", "demo_002">>
    ELSE IF keyword = <<"U+4EBA", "U+53E3">> THEN <<"demo_001">>
    ELSE IF keyword = <<"LABOR">> THEN <<"demo_002">>
    ELSE <<>>
RecordIdsEmitted ==
    LET recs == {i \in 1..Len(emitted) : IsOutputRecord(emitted[i])}
    IN  [k \in 1..Cardinality(recs) |->
            emitted[CHOOSE i \in recs : Cardinality({j \in recs : j <= i}) = k]
                .sourceTableId]
EndsWithOneDemoSummary ==
    /\ emitted # <<>>
    /\ TypeOf(emitted[Len(emitted)]) = "demo_summary"
    /\ \A i \in 1..(Len(emitted) - 1) : IsOutputRecord(emitted[i])

\* C5 as stated: after a 401/403 search failure the run emits the sample
\* records that match the keyword, all of them, then one demo_summary item,
\* no error item, and fetches no table.
C5_AuthFallbackEmitsFilteredSamples ==
    SearchUnauthorized =>
        /\ RecordIdsEmitted = SamplesMatching(input.searchKeyword)
        /\ EndsWithOneDemoSummary
        /\ "error" \notin TypesEmitted
        /\ Len(calls) = 1

\* C5 as amended: after a 401/403 search failure the run emits the first
\* maxItems of the sample records that match the keyword, then one
\* demo_summary item, no error item, and fetches no table.
C5_AuthFallbackEmitsCutSamples ==
    SearchUnauthorized =>
        /\ RecordIdsEmitted =
               SubSeq(SamplesMatching(input.searchKeyword), 1,
                      Min(input.maxItems, Len(SamplesMatching(input.searchKeyword))))
        /\ EndsWithOneDemoSummary
        /\ "error" \notin TypesEmitted
        /\ Len(calls) = 1

\* a 403 with maxItems 1 and no keyword: one sample record of the two
C5_Witness ==
    /\ SearchUnauthorized
    /\ Includes(err, <<"Status", "403">>)
    /\ input.maxItems = 1
    /\ input.searchKeyword = <<>>
    /\ RecordIdsEmitted = <<"demo_001">>
    /\ Len(emitted) = 2

\* what is left of the run: the tables not yet started, then the steps left
\* for the current table
PcRank ==
    [done |-> 0, summary |-> 1, outerCatch |-> 1, loop |-> 2, sleep |-> 3,
     tableCatch |-> 3, structured |-> 4, raw |-> 5, data |-> 6, meta |-> 7]
Variant ==
    IF pc = "start" THEN 8 * input.maxItems + 8
    ELSE 8 * (Len(statsList) - idx) + PcRank[pc]

\* C6: every run terminates, and has emitted at least one item when it does:
\* every step of the run brings it closer to its end, a run that has not
\* ended can take a step, and a run that has ended has emitted an item.
C6_TerminatesHavingEmitted ==
    /\ [][Variant' < Variant]_vars
    /\ [](pc # "done" => ENABLED Next)
    /\ [](pc = "done" => Len(emitted) >= 1)

\* a finished run in which a metadata fetch and a data fetch failed
C6_Witness ==
    /\ pc = "done"
    /\ \E i \in 1..Len(calls) : calls[i].api = "getMetaInfo" /\ ~calls[i].ok
    /\ \E i \in 1..Len(calls) : calls[i].api = "getStatsData" /\ ~calls[i].ok
    /\ Len(emitted) >= 1


\* C12: every item emitted during a run is an OutputRecord, a raw-tagged
\* item, an error-tagged item or a summary/demo_summary item, on every path,
\* the path where the search returns no table included.
C12_FourKindsOfItems ==
    \A i \in 1..Len(emitted) :
        \/ IsOutputRecord(emitted[i]) /\ DOMAIN emitted[i] = RecordFields
        \/ TypeOf(emitted[i]) \in {"raw", "error", "summary", "demo_summary"}

\* the identifiers of the tables the search can return
TableIds == {Table(i)["@id"] : i \in 1..(MaxCandidates + 1)}
\* the emitted item is a record the normalizer made from a value row
IsRowRecord(item) ==
    /\ IsOutputRecord(item)
    /\ item.sourceTableId \in TableIds
    /\ ~IsErrorRecord(item)

\* C13: in a run with includeMetadata false, no structured record made from a
\* value row of a fetched payload has a metadata field.
C13_MetadataOnlyWhenRequested ==
    ~input.includeMetadata =>
        \A i \in 1..Len(emitted) :
            IsRowRecord(emitted[i]) => "metadata" \notin DOMAIN emitted[i]

\* C14: a run without an API key starts no search, metadata or data fetch;
\* when it ends it has emitted the sample records that match the keyword, at
\* most maxItems of them, then one demo_summary item whose demoDataPoints is
\* the number of sample records emitted, and nothing else.
C14_NoKeyEmitsSamplesOnly ==
    ~hasKey =>
        /\ calls = <<>>
        /\ pc = "done" =>
              /\ RecordIdsEmitted =
                     SubSeq(SamplesMatching(input.searchKeyword), 1,
                            Min(input.maxItems,
                                Len(SamplesMatching(input.searchKeyword))))
              /\ EndsWithOneDemoSummary
              /\ emitted[Len(emitted)].demoDataPoints = Len(emitted) - 1

\* no key and an upper-case keyword between blanks: the labor sample alone
C14_Witness ==
    /\ ~hasKey /\ pc = "done"
    /\ input.searchKeyword = <<"LABOR">>
    /\ input.maxItems = 10
    /\ RecordIdsEmitted = <<"demo_002">>
    /\ emitted[Len(emitted)].demoDataPoints = 1

\* the search call failed, and not with HTTP status 401 or 403
SearchFailedOtherwise ==
    /\ pc = "done"
    /\ Len(calls) >= 1 /\ calls[1].api = "getStatsList" /\ ~calls[1].ok
    /\ ~Includes(err, <<"Status", "401">>)
    /\ ~Includes(err, <<"Status", "403">>)

\* C15: a run whose search call failed for a reason other than a 401/403
\* (no response from the server, another status) has emitted exactly one
\* error-tagged item, then the sample records and the demo_summary item.
C15_OtherFailureEmitsOneErrorItem ==
    SearchFailedOtherwise =>
        /\ Cardinality({i \in 1..Len(emitted) : TypeOf(emitted[i]) = "error"}) = 1
        /\ TypeOf(emitted[1]) = "error"
        /\ TypeOf(emitted[Len(emitted)]) = "demo_summary"

\* C16: before the data fetch of any table but the first is started, the
\* delay step has been executed for the table before it, whether that table
\* succeeded or failed.
C16_DelayBetweenTables ==
    \A i \in 1..Len(calls) : \A k \in 2..Len(statsList) :
        (calls[i].api = "getStatsData" /\ calls[i].tableId = statsList[k]["@id"])
        => \E j \in 1..(i - 1) :
              /\ calls[j].api = "sleep"
              /\ calls[j].tableId = statsList[k - 1]["@id"]

\* the items a table without metadata yields from the payload fetched for it
ItemsWithoutMetadata ==
    (IF input.outputFormat \in {"raw", "both"}
     THEN << [type |-> "raw", tableId |-> table["@id"], tableInfo |-> table,
              metadata |-> Null, rawData |-> statsData,
              extractedAt |-> ToISOString(now)] >>
     ELSE <<>>)
    \o (IF input.outputFormat \in {"structured", "both"}
        THEN normalizeStatisticalData(statsData, Null, table["@id"], now).records
        ELSE <<>>)
\* the last n items emitted
LastItems(n) == SubSeq(emitted, Len(emitted) - n + 1, Len(emitted))

\* C17: a metadata fetch failure never fails its table: the call that follows
\* it is the data fetch of the same table, a table that then raises nothing
\* has emitted the raw and structured items of a table without metadata, and
\* no error item of the run reports the metadata fetch.
C17_MetadataFailureNotFatal ==
    /\ \A i \in 1..Len(calls) :
          (calls[i].api = "getMetaInfo" /\ ~calls[i].ok) =>
              IF i = Len(calls)
              THEN pc = "data" /\ table["@id"] = calls[i].tableId
              ELSE /\ calls[i + 1].api = "getStatsData"
                   /\ calls[i + 1].tableId = calls[i].tableId
    /\ (pc = "sleep" /\ Failed("getMetaInfo", table["@id"])) =>
          /\ Len(emitted) >= Len(ItemsWithoutMetadata)
          /\ LastItems(Len(ItemsWithoutMetadata)) = ItemsWithoutMetadata
          /\ DataItemsOf(table["@id"]) =
                (Len(emitted) - Len(ItemsWithoutMetadata) + 1)..Len(emitted)
          /\ ErrorItemsOf(table["@id"]) = {}
    /\ \A i \in 1..Len(emitted) :
          TypeOf(emitted[i]) = "error" => ~Includes(emitted[i].error, <<"getMetaInfo">>)

\* the metadata fetch of a table failed and the table has emitted its raw item
\* and its two records
C17_Witness ==
    /\ pc = "sleep"
    /\ Failed("getMetaInfo", table["@id"])
    /\ input.outputFormat = "both"
    /\ Cardinality(DataItemsOf(table["@id"])) = 3
    /\ emitted[Len(emitted) - 2].metadata = Null
    /\ IsRowRecord(emitted[Len(emitted)])

\* C18: when the metadata argument is absent, every category of every record
\* made from a value row is the raw code of that row, whatever the payload
\* contains.
C18_AbsentMetadataPassesCodes ==
    (Returned1 /\ Nullish(nMeta)) =>
        \A i \in 1..Len(nOut1.records) :
            LET r == nOut1.records[i]
            IN  ~IsErrorRecord(r) =>
                  \A id \in DOMAIN r.metadata.categories :
                      r.metadata.categories[id] =
                          r.metadata.originalAttributes[
                              KeyOf(r.metadata.originalAttributes, id)]

\* the tables whose processing was started: every started table reaches its
\* data fetch, whatever its metadata fetch did
TablesAttempted ==
    {calls[i].tableId : i \in {j \in 1..Len(calls) : calls[j].api = "getStatsData"}}
OutputRecordsEmitted == {i \in 1..Len(emitted) : IsOutputRecord(emitted[i])}

\* C19: the summary item of a run carries as tablesProcessed the number of
\* tables attempted, the failed ones included, and as totalDataPoints the
\* number of OutputRecords emitted during the run.
C19_SummaryCountsAttemptsAndRecords ==
    \A i \in 1..Len(emitted) :
        TypeOf(emitted[i]) = "summary" =>
            /\ emitted[i].tablesProcessed = Cardinality(TablesAttempted)
            /\ emitted[i].tablesProcessed = Len(statsList)
            /\ emitted[i].totalDataPoints = Cardinality(OutputRecordsEmitted)

\* a summary after two tables: the first yielded two records, the second
\* failed
C19_Witness ==
    /\ pc = "done"
    /\ TypeOf(emitted[Len(emitted)]) = "summary"
    /\ emitted[Len(emitted)].tablesProcessed = 2
    /\ emitted[Len(emitted)].totalDataPoints = 2
    /\ ~Failed("getStatsData", "T1")
    /\ Cardinality(ErrorItemsOf("T2")) = 1

\* C20: a run that has ended has emitted exactly one item of type summary or
\* demo_summary, and that item is the last one emitted, on every path, the
\* path where the search returns no table included.
C20_OneTerminalSummaryLast ==
    pc = "done" =>
        /\ emitted # <<>>
        /\ TypeOf(emitted[Len(emitted)]) \in {"summary", "demo_summary"}
        /\ Cardinality({i \in 1..Len(emitted) :
              TypeOf(emitted[i]) \in {"summary", "demo_summary"}}) = 1

\* the entries of the call log for one call and one table
CallsOf(api, id) ==
    {i \in 1..Len(calls) : calls[i].api = api /\ calls[i].tableId = id}

\* C21: no fetch is retried: the search call is made at most once in a run,
\* and for each table the metadata fetch and the data fetch are each made at
\* most once, whether they succeed or fail.
C21_NoFetchRetried ==
    /\ Cardinality({i \in 1..Len(calls) : calls[i].api = "getStatsList"}) <= 1
    /\ \A id \in TableIds :
          /\ Cardinality(CallsOf("getMetaInfo", id)) <= 1
          /\ Cardinality(CallsOf("getStatsData", id)) <= 1

\* a finished run of two tables: the metadata fetch and the data fetch of the
\* first both failed, each made once, and the second table was fetched
C21_Witness ==
    /\ pc = "done"
    /\ Len(statsList) = 2
    /\ Failed("getMetaInfo", "T1") /\ Failed("getStatsData", "T1")
    /\ Cardinality(CallsOf("getMetaInfo", "T1")) = 1
    /\ Cardinality(CallsOf("getStatsData", "T1")) = 1
    /\ Cardinality(CallsOf("getStatsData", "T2")) = 1

\* the category of the first of two keys present on the row, else a default
FirstPresent(r, a, b, dflt) ==
    LET row == r.metadata.originalAttributes
        cats == r.metadata.categories
    IN  IF ("@" \o a) \in DOMAIN row THEN cats[a]
        ELSE IF ("@" \o b) \in DOMAIN row THEN cats[b]
        ELSE dflt

\* C22: for every record made from a value row, region is the resolved label
\* of area when the row has that key, else that of region, else Japan;
\* category1 is that of cat01, else tab, else General; category2 is that of
\* cat02, else cat03, else the empty string: a later key is used only when
\* the earlier key is not present on the row.
C22_FirstPresentKeyWins ==
    Returned1 =>
        \A i \in 1..Len(nOut1.records) :
            LET r == nOut1.records[i]
            IN  ~IsErrorRecord(r) =>
                  /\ r.region = FirstPresent(r, "area", "region", "Japan")
                  /\ r.category1 = FirstPresent(r, "cat01", "tab", "General")
                  /\ r.category2 = FirstPresent(r, "cat02", "cat03", "")

\* the positions of every item emitted for table id
ItemsOf(id) == DataItemsOf(id) \cup ErrorItemsOf(id)
\* the value rows carried by the records emitted for table id, in the order
\* of emission
RowsEmittedFor(id) ==
    LET recs == {i \in DataItemsOf(id) : IsOutputRecord(emitted[i])}
    IN  [k \in 1..Cardinality(recs) |->
            emitted[CHOOSE i \in recs : Cardinality({j \in recs : j <= i}) = k]
                .metadata.originalAttributes]

\* C23: every item of a table is emitted before any fetch and any item of the
\* next table; the raw item of a table precedes its structured records; and
\* a table that raised nothing has emitted its records in the order of the
\* value rows of its payload.
C23_EmissionFollowsProcessing ==
    /\ \A k \in 1..(Len(statsList) - 1) :
          \A i \in ItemsOf(statsList[k]["@id"]) :
              /\ \A j \in ItemsOf(statsList[k + 1]["@id"]) : i < j
              /\ \A c \in CallsOf("getMetaInfo", statsList[k + 1]["@id"])
                          \cup CallsOf("getStatsData", statsList[k + 1]["@id"]) :
                    i <= calls[c].at
    /\ \A id \in TableIds : \A i, j \in DataItemsOf(id) :
          (TypeOf(emitted[i]) = "raw" /\ IsOutputRecord(emitted[j])) => i < j
    /\ (pc = "sleep" /\ input.outputFormat \in {"structured", "both"}) =>
          RowsEmittedFor(table["@id"]) = ValueRows(statsData)

\* a finished run of two tables with format both: the raw item and the two
\* records of the first, those of the second, the summary
C23_Witness ==
    /\ pc = "done"
    /\ input.outputFormat = "both"
    /\ Len(emitted) = 7
    /\ DataItemsOf("T1") = 1..3 /\ DataItemsOf("T2") = 4..6
    /\ TypeOf(emitted[1]) = "raw" /\ TypeOf(emitted[4]) = "raw"
    /\ RowsEmittedFor("T2") = ValueRows(GoodPayload)

\* C24: for each table the emitted items are its data items or one error
\* item, never both, and an error item for a table implies that its data
\* fetch failed.
C24_DataItemsOrErrorItem ==
    \A id \in TableIds :
        /\ ~(DataItemsOf(id) # {} /\ ErrorItemsOf(id) # {})
        /\ Cardinality(ErrorItemsOf(id)) <= 1
        /\ ErrorItemsOf(id) # {} => Failed("getStatsData", id)

=============================================================================
